---------------------------- MODULE Spec2Model ----------------------------
(***************************************************************************)
(* A model of hug/api.py: the ModuleSingleton metaclass that resolves a    *)
(* reference to the one API object of a module, the API object's           *)
(* directives, its startup handlers, extend() and _ensure_started().       *)
(*                                                                         *)
(* An attribute that the code reads only through getattr(self, x, default) *)
(* (_directives with default {}, _startup_handlers with default ()) is     *)
(* modelled by its default while it is unset: no line of the file tells    *)
(* the unset attribute from the empty one.  An attribute tested with       *)
(* hasattr (_http, _cli, __hug__) is 0 while it is unset.                  *)
(***************************************************************************)
EXTENDS Integers, Sequences, FiniteSets, TLC

\* ------------------------------------------------------------------ bounds
\* API objects the process may construct.
MaxAPIs == 2
\* Length a startup-handler list may reach.
MaxLen == 3
\* Handlers that add_startup_handler calls of client code register in all.
MaxAdds == 3
\* API objects of the specification of the startup handlers.
MaxStartupAPIs == 1

\* ----------------------------------------------------------------- domains
\* Module names: "a" is imported when the program starts, "b" is not.
Names == {"a", "b"}

\* Module objects: the entry of sys.modules for a name, and one module object
\* named "a" that is not in sys.modules (a ModuleType built by hand).
SysModule(n) == <<"sys", n>>
Detached == <<"detached", "a">>
Modules == {SysModule(n) : n \in Names} \cup {Detached}

\* module=None, and the module field of an API built without a module.
NoModule == <<"none", "">>

APIs == 1..MaxAPIs

\* A directive is a callable with a __name__; <<name, k>> is the k-th callable
\* of that name.  <<name, 0>> is the one hug.defaults.directives holds.
DirNames == {"timer", "user"}
Directives == {<<"timer", 1>>, <<"timer", 2>>, <<"user", 1>>}
\* A name that neither the catalog nor any API object defines.
QueryNames == DirNames \cup {"nope"}
\* default=None of directive(), and a caller's own default.
NoDefault == <<"None", 0>>
Defaults == {NoDefault, <<"fallback", 0>>}

\* Startup handlers: "a1" is a coroutine function, "s1" and "s2" are not.
Handlers == {"a1", "s1", "s2"}
AsyncHandlers == {"a1"}

EmptyDict == [k \in {} |-> NoDefault]

\* What hug.defaults.directives holds when the API objects are created.
Catalog == [k \in {"timer"} |-> <<"timer", 0>>]

\* The threads of the process that call into one API object at once.
Threads == {"t1", "t2"}

VARIABLES
    sys_modules,        \* the names sys.modules holds
    hug,                \* module.__hug__ : the API object of each module, 0 if unset
    hug_wsgi,           \* module.__hug_wsgi__ : "unset", "api_auto_instantiate", "server"
    nAPI,               \* API objects constructed so far (ids 1..nAPI)
    api_module,         \* API.module
    started,            \* API.started
    _directives,        \* API._directives : name -> directive
    _startup_handlers,  \* API._startup_handlers : sequence of handlers
    _http,              \* API._http : id of the HTTPInterfaceAPI, 0 if unset
    _cli,               \* API._cli : id of the CLIInterfaceAPI, 0 if unset
    nFacets,            \* interface objects constructed so far
    defaults_directives,\* hug.defaults.directives
    extend_pc,          \* the extend() call in progress, if any
    last,               \* the last call made, with its result once it returned
    last_added,         \* per API object: name -> directive of the latest add_directive
    start_hist,         \* per API object: outcome of its latest _ensure_started
    dict_of,            \* per API object: the dict object its _directives names
    built,              \* per API object: interface objects constructed for it
    hug_serving,        \* module.__hug_serving__ : TRUE once set
    server_id,          \* the server object module.__hug_wsgi__ holds, 0 if none
    server_calls,       \* per module: calls of http.server() so far
    tpc,                \* per thread: the call it is in and where
    es_runs             \* per API object: runs of the startup handlers by threads

vars == <<sys_modules, hug, hug_wsgi, nAPI, api_module, started, _directives,
          _startup_handlers, _http, _cli, nFacets, defaults_directives,
          extend_pc, last, last_added, start_hist, dict_of, built,
          hug_serving, server_id, server_calls, tpc, es_runs>>

resolver_vars == <<sys_modules, hug, hug_wsgi, nAPI, api_module, started>>
history_vars == <<last_added, start_hist>>
serve_vars == <<hug_serving, server_id, server_calls>>
thread_vars == <<tpc, es_runs>>

Idle == [op |-> "idle"]

Init ==
    /\ sys_modules = {"a"}
    /\ hug = [m \in Modules |-> 0]
    /\ hug_wsgi = [m \in Modules |-> "unset"]
    /\ nAPI = 0
    /\ api_module = [r \in APIs |-> NoModule]
    /\ started = [r \in APIs |-> FALSE]
    /\ _directives = [r \in APIs |-> EmptyDict]
    /\ _startup_handlers = [r \in APIs |-> <<>>]
    /\ _http = [r \in APIs |-> 0]
    /\ _cli = [r \in APIs |-> 0]
    /\ nFacets = 0
    /\ defaults_directives = Catalog
    /\ extend_pc = Idle
    /\ last = [op |-> "none"]
    /\ last_added = [r \in APIs |-> EmptyDict]
    /\ start_hist = [r \in APIs |-> "never"]
    /\ dict_of = [r \in APIs |-> r]
    /\ built = [r \in APIs |-> [http |-> 0, cli |-> 0]]
    /\ hug_serving = [m \in Modules |-> FALSE]
    /\ server_id = [m \in Modules |-> 0]
    /\ server_calls = [m \in Modules |-> 0]
    /\ tpc = [t \in Threads |-> Idle]
    /\ es_runs = [r \in APIs |-> 0]


\* ------------------------------------------------------ ModuleSingleton
\* The references API(...) is called with: an API object, a module name, a
\* module object, or nothing.
RefAPI(r) == [kind |-> "api", api |-> r, name |-> "", module |-> NoModule]
RefStr(n) == [kind |-> "str", api |-> 0, name |-> n, module |-> NoModule]
RefModule(m) == [kind |-> "module", api |-> 0, name |-> "", module |-> m]
RefNone == [kind |-> "none", api |-> 0, name |-> "", module |-> NoModule]

\* The module objects that exist: those of sys.modules and the detached one.
LiveModules == {SysModule(n) : n \in sys_modules} \cup {Detached}

Refs ==
    {RefAPI(r) : r \in 1..nAPI} \cup {RefStr(n) : n \in Names}
        \cup {RefModule(m) : m \in LiveModules} \cup {RefNone}

\* The module a name or a module object stands for once sys.modules was
\* consulted.
ModuleOf(ref) ==
    IF ref.kind = "str" THEN SysModule(ref.name) ELSE ref.module

\* API.__init__: the fields of the API object r built for `module`.
API_init(res, r, module) ==
    [res EXCEPT !.nAPI = r,
                !.api_module = [x \in APIs |-> IF x = r THEN module ELSE @[x]],
                !.started = [x \in APIs |-> IF x = r THEN FALSE ELSE @[x]]]

\* The resolver's part of the state, as a record the operators below rewrite.
ResolverState ==
    [ret |-> 0, created |-> FALSE, sys_modules |-> sys_modules, hug |-> hug,
     hug_wsgi |-> hug_wsgi, nAPI |-> nAPI, api_module |-> api_module,
     started |-> started]

\* A variant of ModuleSingleton.__call__ without the test for an attached
\* __hug__: every resolution of a module builds an API object.
ModuleSingleton_call_rebuild(ref) ==
    LET st == ResolverState IN
    IF ref.kind = "api" THEN [st EXCEPT !.ret = ref.api]
    ELSE IF ref.kind = "none"
    THEN [API_init(st, nAPI + 1, NoModule) EXCEPT !.ret = nAPI + 1, !.created = TRUE]
    ELSE
        LET module == ModuleOf(ref)
            st1 == IF ref.kind = "str"
                   THEN [st EXCEPT !.sys_modules = @ \cup {ref.name}]
                   ELSE st
        IN  [API_init(st1, nAPI + 1, module) EXCEPT
                !.ret = nAPI + 1, !.created = TRUE,
                !.hug = [@ EXCEPT ![module] = nAPI + 1],
                !.hug_wsgi = [@ EXCEPT ![module] = "api_auto_instantiate"]]

\* ModuleSingleton.__call__(cls, module): the API object the call returns and
\* the state it leaves.
ModuleSingleton_call(ref) ==
    LET st == ResolverState IN
    IF ref.kind = "api" THEN [st EXCEPT !.ret = ref.api]
    ELSE IF ref.kind = "none"
    THEN [API_init(st, nAPI + 1, NoModule) EXCEPT !.ret = nAPI + 1, !.created = TRUE]
    ELSE
        LET module == ModuleOf(ref)
            st1 == IF ref.kind = "str"
                   THEN [st EXCEPT !.sys_modules = @ \cup {ref.name}]
                   ELSE st
        IN  IF hug[module] = 0
            THEN [API_init(st1, nAPI + 1, module) EXCEPT
                    !.ret = nAPI + 1, !.created = TRUE,
                    !.hug = [@ EXCEPT ![module] = nAPI + 1],
                    !.hug_wsgi = [@ EXCEPT ![module] = "api_auto_instantiate"]]
            ELSE [st1 EXCEPT !.ret = hug[module]]

\* The resolver's state after a call that left `res`.
SetResolver(res) ==
    /\ sys_modules' = res.sys_modules
    /\ hug' = res.hug
    /\ hug_wsgi' = res.hug_wsgi
    /\ nAPI' = res.nAPI
    /\ api_module' = res.api_module
    /\ started' = res.started

\* API(ref), called by client code.
API(ref) ==
    /\ extend_pc.op = "idle"
    /\ LET res == ModuleSingleton_call(ref) IN
        /\ res.nAPI <= MaxAPIs
        /\ SetResolver(res)
        /\ last' = [op |-> "API", ref |-> ref, ret |-> res.ret,
                    created |-> res.created]
    /\ UNCHANGED <<_directives, _startup_handlers, _http, _cli, nFacets,
                   defaults_directives, extend_pc, history_vars>>
    /\ UNCHANGED <<dict_of, built, serve_vars, thread_vars>>

\* from_object(obj), for an object whose __module__ is the name n.
from_object(n) ==
    /\ extend_pc.op = "idle"
    /\ LET ref == RefStr(n)
           res == ModuleSingleton_call(ref) IN
        /\ res.nAPI <= MaxAPIs
        /\ SetResolver(res)
        /\ last' = [op |-> "from_object", ref |-> ref, ret |-> res.ret,
                    created |-> res.created]
    /\ UNCHANGED <<_directives, _startup_handlers, _http, _cli, nFacets,
                   defaults_directives, extend_pc, history_vars>>
    /\ UNCHANGED <<dict_of, built, serve_vars, thread_vars>>

NextResolve ==
    \/ \E ref \in Refs : API(ref)
    \/ \E n \in Names : from_object(n)

SpecResolve == Init /\ [][NextResolve]_vars

\* C1: every reference to one module (its name, the module object, the API
\* object attached to it) resolves to the same API object: the API objects
\* built for a module are exactly the one its __hug__ holds, and a call of
\* API(ref) or from_object returns that one.
SingletonIdentity ==
    /\ \A m \in Modules :
        hug[m] # 0 => hug[m] \in 1..nAPI /\ api_module[hug[m]] = m
    /\ \A r \in 1..nAPI :
        api_module[r] # NoModule => hug[api_module[r]] = r
    /\ last.op \in {"API", "from_object"} =>
        /\ last.ref.kind \in {"str", "module"} =>
            last.ret = hug[ModuleOf(last.ref)]
        /\ last.ref.kind = "api" => last.ret = last.ref.api

\* A module object resolved a second time, through a module handle, after
\* its API object was built: the call built nothing.
SingletonIdentityWitness ==
    /\ last.op = "API"
    /\ last.ref.kind = "module"
    /\ ~last.created
    /\ last.ret = hug[last.ref.module]
    /\ nAPI = MaxAPIs

\* ------------------------------------------------------------ directives
\* dict.get(k, default)
DictGet(d, k, default) == IF k \in DOMAIN d THEN d[k] ELSE default

\* d[k] = v
DictSet(d, k, v) == [x \in DOMAIN d \cup {k} |-> IF x = k THEN v ELSE d[x]]

\* dict.items(): the <<key, value>> pairs of d, one after the other.
RECURSIVE items(_)
items(d) ==
    IF DOMAIN d = {} THEN <<>>
    ELSE LET k == CHOOSE x \in DOMAIN d : TRUE
         IN  <<<<k, d[k]>>>> \o items([x \in DOMAIN d \ {k} |-> d[x]])

\* itertools.chain(a, b)
chain(a, b) == a \o b

\* {'hug_' + name: directive for name, directive in sources}: a later pair
\* of the same name replaces an earlier one.
RECURSIVE DictComprehension(_)
DictComprehension(sources) ==
    IF sources = <<>> THEN EmptyDict
    ELSE LET n == Len(sources)
         IN  DictSet(DictComprehension(SubSeq(sources, 1, n - 1)),
                     "hug_" \o sources[n][1], sources[n][2])

\* A variant of API.directives that chains the instance's directives before
\* the defaults.
directives_defaults_last(self) ==
    DictComprehension(chain(items(_directives[self]), items(defaults_directives)))

\* API.directives(self)
directives(self) ==
    DictComprehension(chain(items(defaults_directives), items(_directives[self])))

\* A variant of API.directive that looks the name up in the defaults first.
directive_defaults_first(self, name, default) ==
    DictGet(defaults_directives, name, DictGet(_directives[self], name, default))

\* API.directive(self, name, default)
directive(self, name, default) ==
    DictGet(_directives[self], name, DictGet(defaults_directives, name, default))

\* directive.__name__
DeclaredName(d) == d[1]

\* A variant of API.add_directive that keeps the directive a name already has.
add_directive_keep_first(ds, d) ==
    IF DeclaredName(d) \in DOMAIN ds THEN ds ELSE DictSet(ds, DeclaredName(d), d)

\* API.add_directive(self, directive), on the mapping self._directives.
add_directive(ds, d) == DictSet(ds, DeclaredName(d), d)

\* self._directives[directive.__name__] = directive changes the dict object,
\* under every API object whose _directives is that object (binding says
\* which): ds is what the object holds afterwards.
store_directives(binding, self, ds) ==
    [r \in APIs |-> IF binding[r] = binding[self] THEN ds ELSE _directives[r]]

\* The destination of the extend() that returned just before this call, when
\* its source was self and another object than the destination; 0 otherwise.
extended_from(self) ==
    IF last.op = "extend" /\ last.api = self /\ last.self # self
    THEN last.self ELSE 0

\* client code calls self.directive(name, default)
call_directive(self, name, default) ==
    /\ extend_pc.op = "idle"
    /\ last' = [op |-> "directive", self |-> self, name |-> name,
                default |-> default, ret |-> directive(self, name, default)]
    /\ UNCHANGED <<resolver_vars, _directives, _startup_handlers, _http, _cli,
                   nFacets, defaults_directives, extend_pc, history_vars>>
    /\ UNCHANGED <<dict_of, built, serve_vars, thread_vars>>

\* client code calls self.directives()
call_directives(self) ==
    /\ extend_pc.op = "idle"
    /\ last' = [op |-> "directives", self |-> self, ret |-> directives(self)]
    /\ UNCHANGED <<resolver_vars, _directives, _startup_handlers, _http, _cli,
                   nFacets, defaults_directives, extend_pc, history_vars>>
    /\ UNCHANGED <<dict_of, built, serve_vars, thread_vars>>

\* A variant of API.add_directive that registers the directive in
\* hug.defaults.directives instead of the API object's own mapping.
call_add_directive_global(self, d) ==
    /\ extend_pc.op = "idle"
    /\ defaults_directives' = DictSet(defaults_directives, DeclaredName(d), d)
    /\ last' = [op |-> "add_directive", self |-> self, directive |-> d,
                pre |-> _directives[self], dest |-> extended_from(self)]
    /\ UNCHANGED <<resolver_vars, _directives, _startup_handlers, _http, _cli,
                   nFacets, extend_pc, history_vars>>
    /\ UNCHANGED <<dict_of, built, serve_vars, thread_vars>>

\* client code calls self.add_directive(directive)
call_add_directive(self, d) ==
    /\ extend_pc.op = "idle"
    /\ _directives' =
        store_directives(dict_of, self, add_directive(_directives[self], d))
    /\ last_added' = [last_added EXCEPT ![self] = DictSet(@, DeclaredName(d), d)]
    /\ last' = [op |-> "add_directive", self |-> self, directive |-> d,
                pre |-> _directives[self], dest |-> extended_from(self)]
    /\ UNCHANGED <<resolver_vars, _startup_handlers, _http, _cli, nFacets,
                   defaults_directives, extend_pc, start_hist>>
    /\ UNCHANGED <<dict_of, built, serve_vars, thread_vars>>

\* ---------------------------------------------------------------- facets
\* A variant of API.http without the hasattr test: every access constructs.
http_always_new(self) == nFacets + 1

\* The interface object self.http returns: the one _http holds, or a new one.
http(self) == IF _http[self] = 0 THEN nFacets + 1 ELSE _http[self]

\* The interface object self.cli returns.
cli(self) == IF _cli[self] = 0 THEN nFacets + 1 ELSE _cli[self]

\* client code reads self.http
call_http(self) ==
    /\ extend_pc.op = "idle"
    /\ _http' = [_http EXCEPT ![self] = http(self)]
    /\ nFacets' = IF http(self) > nFacets THEN nFacets + 1 ELSE nFacets
    /\ built' = [built EXCEPT ![self].http =
                    IF http(self) > nFacets THEN @ + 1 ELSE @]
    /\ last' = [op |-> "http", self |-> self, ret |-> http(self),
                held |-> _http[self]]
    /\ UNCHANGED <<resolver_vars, _directives, _startup_handlers, _cli,
                   defaults_directives, extend_pc, history_vars>>
    /\ UNCHANGED <<dict_of, serve_vars, thread_vars>>

\* client code reads self.cli
call_cli(self) ==
    /\ extend_pc.op = "idle"
    /\ _cli' = [_cli EXCEPT ![self] = cli(self)]
    /\ nFacets' = IF cli(self) > nFacets THEN nFacets + 1 ELSE nFacets
    /\ built' = [built EXCEPT ![self].cli =
                    IF cli(self) > nFacets THEN @ + 1 ELSE @]
    /\ last' = [op |-> "cli", self |-> self, ret |-> cli(self),
                held |-> _cli[self]]
    /\ UNCHANGED <<resolver_vars, _directives, _startup_handlers, _http,
                   defaults_directives, extend_pc, history_vars>>
    /\ UNCHANGED <<dict_of, serve_vars, thread_vars>>

\* API.handlers(), iterated to its end: the interface objects whose
\* handlers() were iterated, in order, and whether the iteration raised.
\* getattr without a default raises AttributeError for a slot never set.
handlers(self) ==
    IF _http[self] = 0 THEN [yielded |-> <<>>, raised |-> TRUE]
    ELSE IF _cli[self] = 0 THEN [yielded |-> <<http(self)>>, raised |-> TRUE]
    ELSE [yielded |-> <<http(self), cli(self)>>, raised |-> FALSE]

\* client code iterates self.handlers()
call_handlers(self) ==
    /\ extend_pc.op = "idle"
    /\ last' = [op |-> "handlers", self |-> self, ret |-> handlers(self)]
    /\ UNCHANGED <<resolver_vars, _directives, _startup_handlers, _http, _cli,
                   nFacets, defaults_directives, extend_pc, history_vars>>
    /\ UNCHANGED <<dict_of, built, serve_vars, thread_vars>>

\* ------------------------------------------------- the module's entry point
\* What a caller passes to module.__hug_wsgi__.
Args == {"x", "y"}

\* HTTPInterfaceAPI.server(), called for the API object of `module`: the new
\* server object it returns.
server(module) == server_calls[module] + 1

\* Calling the server object: its result for these arguments.
server_call(id, args) == [server |-> id, args |-> args]

\* module.__hug__.http.server() : the interface object is the one the http
\* property returns, the server object is new, and the call is counted.
http_server(module) ==
    LET self == hug[module] IN
    /\ _http' = [_http EXCEPT ![self] = http(self)]
    /\ nFacets' = IF http(self) > nFacets THEN nFacets + 1 ELSE nFacets
    /\ built' = [built EXCEPT ![self].http =
                    IF http(self) > nFacets THEN @ + 1 ELSE @]
    /\ server_calls' = [server_calls EXCEPT ![module] = @ + 1]

\* A variant of api_auto_instantiate without the test for __hug_serving__:
\* every call through it builds a server.
api_auto_instantiate_always(module, args) ==
    /\ http_server(module)
    /\ server_id' = [server_id EXCEPT ![module] = server(module)]
    /\ hug_wsgi' = [hug_wsgi EXCEPT ![module] = "server"]
    /\ hug_serving' = [hug_serving EXCEPT ![module] = TRUE]

\* api_auto_instantiate(*args, **kwargs), the closure over `module`, up to
\* its return statement.
api_auto_instantiate(module, args) ==
    IF ~hug_serving[module]
    THEN /\ http_server(module)
         /\ server_id' = [server_id EXCEPT ![module] = server(module)]
         /\ hug_wsgi' = [hug_wsgi EXCEPT ![module] = "server"]
         /\ hug_serving' = [hug_serving EXCEPT ![module] = TRUE]
    ELSE UNCHANGED <<_http, nFacets, built, server_calls, server_id, hug_wsgi,
                     hug_serving>>

\* a caller calls module.__hug_wsgi__(args): api_auto_instantiate while the
\* attribute still names it, the server object afterwards.
call_hug_wsgi(module, args) ==
    /\ extend_pc.op = "idle"
    /\ hug_wsgi[module] # "unset"
    /\ IF hug_wsgi[module] = "api_auto_instantiate"
       THEN api_auto_instantiate(module, args)
       ELSE UNCHANGED <<_http, nFacets, built, server_calls, server_id,
                        hug_wsgi, hug_serving>>
    /\ last' = [op |-> "hug_wsgi", module |-> module, args |-> args,
                through |-> hug_wsgi[module], was_serving |-> hug_serving[module],
                ret |-> server_call(server_id'[module], args)]
    /\ UNCHANGED <<sys_modules, hug, nAPI, api_module, started, _directives,
                   _startup_handlers, _cli, defaults_directives, extend_pc,
                   history_vars, dict_of, thread_vars>>

\* a caller calls the api_auto_instantiate it took from module.__hug_wsgi__
\* before the first call.
call_api_auto_instantiate(module, args) ==
    /\ extend_pc.op = "idle"
    /\ hug[module] # 0
    /\ api_auto_instantiate(module, args)
    /\ last' = [op |-> "hug_wsgi", module |-> module, args |-> args,
                through |-> "retained", was_serving |-> hug_serving[module],
                ret |-> server_call(server_id'[module], args)]
    /\ UNCHANGED <<sys_modules, hug, nAPI, api_module, started, _directives,
                   _startup_handlers, _cli, defaults_directives, extend_pc,
                   history_vars, dict_of, thread_vars>>

\* ------------------------------------------------------ startup handlers
\* API.startup_handlers
startup_handlers(self) == _startup_handlers[self]

\* A variant of API.add_startup_handler that leaves out a handler the list
\* already holds.
add_startup_handler_once(hs, handler) ==
    IF \E i \in 1..Len(hs) : hs[i] = handler THEN hs ELSE Append(hs, handler)

\* API.add_startup_handler(self, handler), on the list self._startup_handlers.
add_startup_handler(hs, handler) ==
    Append(IF hs = <<>> THEN <<>> ELSE hs, handler)

\* The handlers registered on all API objects together.
RECURSIVE HandlersUpTo(_)
HandlersUpTo(r) ==
    IF r = 0 THEN 0 ELSE Len(_startup_handlers[r]) + HandlersUpTo(r - 1)

\* client code calls self.add_startup_handler(handler)
call_add_startup_handler(self, handler) ==
    /\ extend_pc.op = "idle"
    /\ Len(_startup_handlers[self]) < MaxLen
    /\ HandlersUpTo(MaxAPIs) < MaxAdds
    /\ _startup_handlers' =
        [_startup_handlers EXCEPT ![self] = add_startup_handler(@, handler)]
    /\ last' = [op |-> "add_startup_handler", self |-> self, handler |-> handler,
                dest |-> extended_from(self)]
    /\ UNCHANGED <<resolver_vars, _directives, _http, _cli, nFacets,
                   defaults_directives, extend_pc, history_vars>>
    /\ UNCHANGED <<dict_of, built, serve_vars, thread_vars>>

\* introspect.is_coroutine(handler)
is_coroutine(handler) == handler \in AsyncHandlers

\* [h for h in self.startup_handlers if introspect.is_coroutine(h)]
async_handlers(hs) == SelectSeq(hs, is_coroutine)

Range(seq) == {seq[k] : k \in 1..Len(seq)}

\* One invocation handler(self), of the handler registered at `index`.
Invocation(handler, self, index) ==
    [handler |-> handler, arg |-> self, index |-> index]

\* [handler(self) for handler in async_handlers]: the coroutine functions
\* among hs[i..], called in the order of the list.
RECURSIVE call_async(_, _, _)
call_async(hs, self, i) ==
    IF i > Len(hs) THEN <<>>
    ELSE IF is_coroutine(hs[i])
    THEN <<Invocation(hs[i], self, i)>> \o call_async(hs, self, i + 1)
    ELSE call_async(hs, self, i + 1)

\* A variant of the loop of _ensure_started over the handlers that are not
\* coroutines, which calls a handler once however often it is registered.
RECURSIVE run_sync_once_each(_, _, _, _, _)
run_sync_once_each(hs, async, self, i, failAt) ==
    IF i > Len(hs) THEN [log |-> <<>>, raised |-> FALSE]
    ELSE IF hs[i] \in Range(async) \/ hs[i] \in Range(SubSeq(hs, 1, i - 1))
    THEN run_sync_once_each(hs, async, self, i + 1, failAt)
    ELSE IF i = failAt
    THEN [log |-> <<Invocation(hs[i], self, i)>>, raised |-> TRUE]
    ELSE LET rest == run_sync_once_each(hs, async, self, i + 1, failAt)
         IN  [rest EXCEPT !.log = <<Invocation(hs[i], self, i)>> \o @]

\* A variant of the same loop that goes on to the next handler when one
\* raises, and raises at the end.
RECURSIVE run_sync_continue(_, _, _, _, _)
run_sync_continue(hs, async, self, i, failAt) ==
    IF i > Len(hs) THEN [log |-> <<>>, raised |-> failAt # 0]
    ELSE IF hs[i] \in Range(async)
    THEN run_sync_continue(hs, async, self, i + 1, failAt)
    ELSE LET rest == run_sync_continue(hs, async, self, i + 1, failAt)
         IN  [rest EXCEPT !.log = <<Invocation(hs[i], self, i)>> \o @]

\* for startup_handler in self.startup_handlers:
\*     if not startup_handler in async_handlers: startup_handler(self)
\* from hs[i] on; the handler registered at failAt raises when it is called,
\* which ends the loop.
RECURSIVE run_sync(_, _, _, _, _)
run_sync(hs, async, self, i, failAt) ==
    IF i > Len(hs) THEN [log |-> <<>>, raised |-> FALSE]
    ELSE IF hs[i] \in Range(async)
    THEN run_sync(hs, async, self, i + 1, failAt)
    ELSE IF i = failAt
    THEN [log |-> <<Invocation(hs[i], self, i)>>, raised |-> TRUE]
    ELSE LET rest == run_sync(hs, async, self, i + 1, failAt)
         IN  [rest EXCEPT !.log = <<Invocation(hs[i], self, i)>> \o @]

\* A variant of _ensure_started that sets self.started before it runs the
\* handlers.
ensure_started_marks_first(self, failAt) ==
    LET hs == startup_handlers(self)
        async == async_handlers(hs)
        sync == run_sync(hs, async, self, 1, failAt)
    IN
    IF started[self] THEN [log |-> <<>>, raised |-> FALSE, started |-> TRUE]
    ELSE IF async # <<>> /\ failAt # 0 /\ is_coroutine(hs[failAt])
    THEN [log |-> call_async(hs, self, 1), raised |-> TRUE, started |-> TRUE]
    ELSE [log |-> call_async(hs, self, 1) \o sync.log, raised |-> sync.raised,
          started |-> TRUE]

\* API._ensure_started(self): the invocations it makes, in order, whether it
\* raises, and self.started when it ends.  The handler registered at failAt
\* (0: none) raises when it runs.  If a coroutine raises,
\* loop.run_until_complete(asyncio.gather(...)) raises and no other handler is
\* called.  No statement of the method assigns self.started.
ensure_started(self, failAt) ==
    LET hs == startup_handlers(self)
        async == async_handlers(hs)
        sync == run_sync(hs, async, self, 1, failAt)
    IN
    IF started[self] THEN [log |-> <<>>, raised |-> FALSE, started |-> started[self]]
    ELSE IF async # <<>> /\ failAt # 0 /\ is_coroutine(hs[failAt])
    THEN [log |-> call_async(hs, self, 1), raised |-> TRUE, started |-> started[self]]
    ELSE [log |-> call_async(hs, self, 1) \o sync.log, raised |-> sync.raised,
          started |-> started[self]]

\* The coroutines handed to asyncio.gather, each named by the position of
\* its handler in hs, and the orders in which they can complete.
gathered(hs) == {i \in 1..Len(hs) : is_coroutine(hs[i])}
Orders(S) ==
    {o \in [1..Cardinality(S) -> S] :
        \A i, j \in 1..Cardinality(S) : o[i] = o[j] => i = j}

\* A variant of the wait for the gathered coroutines that returns when the
\* first of them has completed.
gather_first_completed(order, failAt) ==
    [done |-> IF order = <<>> THEN <<>> ELSE <<order[1]>>, raised |-> FALSE]

\* loop.run_until_complete(asyncio.gather(...)): the coroutines that have
\* completed when it returns or raises, in the order `order` in which the
\* loop completes them; the one of the handler at failAt raises.
gather(order, failAt) ==
    IF \E k \in 1..Len(order) : order[k] = failAt
    THEN [done |-> SubSeq(order, 1,
                    (CHOOSE k \in 1..Len(order) : order[k] = failAt) - 1),
          raised |-> TRUE]
    ELSE [done |-> order, raised |-> FALSE]

\* a caller runs self._ensure_started()
_ensure_started(self, failAt) ==
    /\ extend_pc.op = "idle"
    /\ LET res == ensure_started(self, failAt) IN
        /\ started' = [started EXCEPT ![self] = res.started]
        /\ \E order \in Orders(gathered(startup_handlers(self))) :
            last' = [op |-> "_ensure_started", self |-> self,
                    handlers |-> startup_handlers(self), failAt |-> failAt,
                    log |-> res.log, raised |-> res.raised,
                    completed |-> IF started[self] THEN <<>>
                                  ELSE gather(order, failAt).done,
                    was_started |-> started[self],
                    prev |-> start_hist[self]]
        /\ start_hist' = [start_hist EXCEPT ![self] =
                            IF res.raised THEN "failed" ELSE "ok"]
    /\ UNCHANGED <<sys_modules, hug, hug_wsgi, nAPI, api_module, _directives,
                   _startup_handlers, _http, _cli, nFacets, defaults_directives,
                   extend_pc, last_added>>
    /\ UNCHANGED <<dict_of, built, serve_vars, thread_vars>>

\* --------------------------------------------------------------- threads
\* Several threads of one process call into the same API objects; a thread
\* makes one call, statement by statement, and keeps what the call returned.
Kinds == {"http", "cli"}

\* self._http or self._cli, 0 if never set.
slot(self, kind) == IF kind = "http" THEN _http[self] ELSE _cli[self]

\* thread t reads self.http or self.cli: `if not hasattr(self, '_http')`
property_hasattr(t, self, kind) ==
    /\ tpc[t].op = "idle"
    /\ tpc' = [tpc EXCEPT ![t] =
                [op |-> kind, self |-> self,
                 at |-> IF slot(self, kind) = 0 THEN "construct" ELSE "return"]]
    /\ UNCHANGED <<resolver_vars, _directives, _startup_handlers, _http, _cli,
                   nFacets, defaults_directives, extend_pc, last, history_vars,
                   dict_of, built, serve_vars, es_runs>>

\* self._http = HTTPInterfaceAPI(self), or the same for _cli, in thread t
property_construct(t) ==
    /\ tpc[t].op \in Kinds
    /\ tpc[t].at = "construct"
    /\ LET self == tpc[t].self IN
        /\ IF tpc[t].op = "http"
           THEN /\ _http' = [_http EXCEPT ![self] = nFacets + 1]
                /\ built' = [built EXCEPT ![self].http = @ + 1]
                /\ UNCHANGED _cli
           ELSE /\ _cli' = [_cli EXCEPT ![self] = nFacets + 1]
                /\ built' = [built EXCEPT ![self].cli = @ + 1]
                /\ UNCHANGED _http
        /\ nFacets' = nFacets + 1
    /\ tpc' = [tpc EXCEPT ![t].at = "return"]
    /\ UNCHANGED <<resolver_vars, _directives, _startup_handlers,
                   defaults_directives, extend_pc, last, history_vars,
                   dict_of, serve_vars, es_runs>>

\* return self._http, or self._cli, in thread t
property_return(t) ==
    /\ tpc[t].op \in Kinds
    /\ tpc[t].at = "return"
    /\ tpc' = [tpc EXCEPT ![t] =
                [op |-> "done", call |-> tpc[t].op, self |-> tpc[t].self,
                 ret |-> slot(tpc[t].self, tpc[t].op)]]
    /\ UNCHANGED <<resolver_vars, _directives, _startup_handlers, _http, _cli,
                   nFacets, defaults_directives, extend_pc, last, history_vars,
                   dict_of, built, serve_vars, es_runs>>

\* thread t calls self._ensure_started(): `if not self.started`
ensure_started_test(t, self) ==
    /\ tpc[t].op = "idle"
    /\ tpc' = [tpc EXCEPT ![t] =
                IF started[self]
                THEN [op |-> "done", call |-> "_ensure_started", self |-> self,
                      ret |-> 0]
                ELSE [op |-> "_ensure_started", self |-> self, at |-> "run"]]
    /\ UNCHANGED <<resolver_vars, _directives, _startup_handlers, _http, _cli,
                   nFacets, defaults_directives, extend_pc, last, history_vars,
                   dict_of, built, serve_vars, es_runs>>

\* the body of `if not self.started` in thread t: the handlers are run, none
\* of them raising, and the method returns.
ensure_started_run(t) ==
    /\ tpc[t].op = "_ensure_started"
    /\ LET self == tpc[t].self
           res == ensure_started(self, 0)
       IN
        /\ es_runs' = [es_runs EXCEPT ![self] = @ + 1]
        /\ started' = [started EXCEPT ![self] = res.started]
        /\ tpc' = [tpc EXCEPT ![t] =
                    [op |-> "done", call |-> "_ensure_started", self |-> self,
                     ret |-> Len(res.log)]]
    /\ UNCHANGED <<sys_modules, hug, hug_wsgi, nAPI, api_module, _directives,
                   _startup_handlers, _http, _cli, nFacets, defaults_directives,
                   extend_pc, last, history_vars, dict_of, built, serve_vars>>

\* ---------------------------------------------------------------- extend
\* A variant of the directive loop of API.extend that keeps the directive
\* the destination already has under a name.
extend_directives_keep_dest(dst, src) ==
    [x \in DOMAIN dst \cup DOMAIN src |-> IF x \in DOMAIN dst THEN dst[x] ELSE src[x]]

\* for directive in api._directives.values(): self.add_directive(directive)
RECURSIVE add_all(_, _)
add_all(dst, pairs) ==
    IF pairs = <<>> THEN dst
    ELSE add_all(add_directive(dst, pairs[1][2]), Tail(pairs))

extend_directives(dst, src) == add_all(dst, items(src))

\* A variant of the directive loop of API.extend in which a destination
\* without directives takes the dict object of the source for its own.
directives_dict_of_source(self, api) ==
    IF _directives[self] = EmptyDict THEN dict_of[api] ELSE dict_of[self]

\* The dict object self._directives names after the directive loop of
\* API.extend: add_directive keeps the one self has, or binds a new one.
directives_dict(self, api) == dict_of[self]

\* API.extend(self, api) up to its loop over the startup handlers: the
\* reference is resolved, the HTTP interface of the source is handed to the
\* destination's (whose table of routes is the interface object's own, not
\* this file's), the directives are copied.
extend(self, ref) ==
    /\ extend_pc.op = "idle"
    /\ LET res == ModuleSingleton_call(ref)
           api == res.ret
       IN
        /\ res.nAPI <= MaxAPIs
        /\ api # self =>
            Len(_startup_handlers[self]) + Len(_startup_handlers[api]) <= MaxLen
        /\ SetResolver(res)
        /\ IF _http[api] # 0
           THEN /\ _http' = [_http EXCEPT ![self] = http(self)]
                /\ nFacets' = IF http(self) > nFacets THEN nFacets + 1 ELSE nFacets
                /\ built' = [built EXCEPT ![self].http =
                                IF http(self) > nFacets THEN @ + 1 ELSE @]
           ELSE UNCHANGED <<_http, nFacets, built>>
        /\ dict_of' = [dict_of EXCEPT ![self] = directives_dict(self, api)]
        /\ _directives' =
            store_directives(dict_of', self,
                extend_directives(_directives[self], _directives[api]))
        /\ last_added' =
            [last_added EXCEPT ![self] =
                [x \in DOMAIN @ \cup DOMAIN _directives[api] |->
                    IF x \in DOMAIN _directives[api]
                    THEN _directives[api][x] ELSE @[x]]]
        /\ extend_pc' = [op |-> "extend", self |-> self, api |-> api, i |-> 1,
                         ref |-> ref,
                         pre_directives |-> _directives[self],
                         src_directives |-> _directives[api],
                         pre_handlers |-> _startup_handlers[self],
                         src_handlers |-> _startup_handlers[api]]
        /\ last' = [op |-> "extend_call", self |-> self, ref |-> ref]
    /\ UNCHANGED <<_startup_handlers, _cli, defaults_directives, start_hist>>
    /\ UNCHANGED <<serve_vars, thread_vars>>

\* for startup_handler in (api.startup_handlers or ()):
\*     self.add_startup_handler(startup_handler)
\* one turn of the loop over the list object of the source, or the return of
\* extend when the list is exhausted.
extend_loop ==
    /\ extend_pc.op = "extend"
    /\ LET self == extend_pc.self
           hs == startup_handlers(extend_pc.api)
           i == extend_pc.i
       IN
        IF i <= Len(hs)
        THEN /\ Len(_startup_handlers[self]) < MaxLen
             /\ _startup_handlers' =
                    [_startup_handlers EXCEPT ![self] = add_startup_handler(@, hs[i])]
             /\ extend_pc' = [extend_pc EXCEPT !.i = i + 1]
             /\ UNCHANGED last
        ELSE /\ extend_pc' = Idle
             /\ last' = [extend_pc EXCEPT !.op = "extend"]
             /\ UNCHANGED _startup_handlers
    /\ UNCHANGED <<resolver_vars, _directives, _http, _cli, nFacets,
                   defaults_directives, history_vars>>
    /\ UNCHANGED <<dict_of, built, serve_vars, thread_vars>>

\* The references the client code of the specifications below passes.
ClientRefs == {RefNone, RefStr("a")} \cup {RefAPI(r) : r \in 1..nAPI}

NextDirectives ==
    \/ \E ref \in ClientRefs : API(ref)
    \/ \E self \in 1..nAPI, name \in QueryNames, default \in Defaults :
        call_directive(self, name, default)
    \/ \E self \in 1..nAPI : call_directives(self)
    \/ \E self \in 1..nAPI, d \in Directives : call_add_directive(self, d)
    \/ \E self \in 1..nAPI, ref \in ClientRefs : extend(self, ref)
    \/ extend_loop

SpecDirectives == Init /\ [][NextDirectives]_vars

\* The directives and the handlers client code registers where extend() is
\* looked at.
NamedRefs == {RefStr(n) : n \in Names} \cup {RefAPI(r) : r \in 1..nAPI}
ExtendDirectives == {<<"user", 1>>}
ExtendHandlers == {"s1", "s2"}
\* Handlers all API objects hold together once an extend() has returned,
\* where extend() is looked at.
MaxExtendTotal == 5

NextExtend ==
    \/ \E ref \in NamedRefs : API(ref)
    \/ \E self \in 1..nAPI, d \in ExtendDirectives : call_add_directive(self, d)
    \/ \E self \in 1..nAPI, handler \in ExtendHandlers :
        call_add_startup_handler(self, handler)
    \/ \E self \in 1..nAPI, ref \in NamedRefs :
        /\ extend(self, ref)
        /\ HandlersUpTo(MaxAPIs) + Len(extend_pc'.src_handlers) <= MaxExtendTotal
    \/ extend_loop

SpecExtend == Init /\ [][NextExtend]_vars

\* What the directive of a name is to be: the instance's own, else the
\* default catalog's, else the caller's default.
OverrideThenCatalog(self, name, default) ==
    IF name \in DOMAIN _directives[self] THEN _directives[self][name]
    ELSE IF name \in DOMAIN defaults_directives THEN defaults_directives[name]
    ELSE default

\* C7: directive(name, default) is the instance's directive of that name when
\* there is one (also when the catalog defines the name), else the catalog's,
\* else default; a name unknown to both yields default, not an error.
DirectiveResolution ==
    /\ \A self \in 1..nAPI, name \in QueryNames, default \in Defaults :
        directive(self, name, default) = OverrideThenCatalog(self, name, default)
    /\ last.op = "directive" =>
        /\ last.ret = OverrideThenCatalog(last.self, last.name, last.default)
        /\ last.name \notin DOMAIN _directives[last.self] \cup DOMAIN defaults_directives
            => last.ret = last.default

\* directive("timer") was called on an API object that overrides the
\* catalog's "timer", and returned the override.
DirectiveResolutionWitness ==
    /\ last.op = "directive"
    /\ last.name = "timer"
    /\ "timer" \in DOMAIN defaults_directives
    /\ "timer" \in DOMAIN _directives[last.self]
    /\ last.ret = _directives[last.self]["timer"]
    /\ last.ret # defaults_directives["timer"]

\* The names directives() is to have keys for.
AllDirectiveNames(self) == DOMAIN defaults_directives \cup DOMAIN _directives[self]

\* C8: the keys of directives() are 'hug_' + n for the names n of the catalog
\* and of the instance, each bound to the instance's directive if there is
\* one and to the catalog's otherwise: to what directive(n) returns.
DirectivesMerge ==
    /\ \A self \in 1..nAPI :
        LET ds == directives(self) IN
        /\ DOMAIN ds = {"hug_" \o n : n \in AllDirectiveNames(self)}
        /\ \A n \in AllDirectiveNames(self) :
            /\ ds["hug_" \o n] = OverrideThenCatalog(self, n, NoDefault)
            /\ ds["hug_" \o n] = directive(self, n, NoDefault)
    /\ last.op = "directives" =>
        /\ DOMAIN last.ret = {"hug_" \o n : n \in AllDirectiveNames(last.self)}
        /\ \A n \in AllDirectiveNames(last.self) :
            last.ret["hug_" \o n] = directive(last.self, n, NoDefault)

\* directives() was called on an API object with its own "timer" and "user":
\* the result has both names, "timer" bound to the instance's directive.
DirectivesMergeWitness ==
    /\ last.op = "directives"
    /\ DOMAIN _directives[last.self] = {"timer", "user"}
    /\ DOMAIN last.ret = {"hug_timer", "hug_user"}
    /\ last.ret["hug_timer"] = _directives[last.self]["timer"]
    /\ last.ret["hug_timer"] # defaults_directives["timer"]

\* C9: add_directive is last-writer-wins: the directive resolvable under a
\* name is the one the latest add_directive call for that name passed (calls
\* made by extend included), and no other; a name never added is not
\* overridden.
LastWriterWins ==
    \A self \in 1..nAPI, n \in DirNames :
        IF n \in DOMAIN last_added[self]
        THEN /\ directive(self, n, NoDefault) = last_added[self][n]
             /\ directives(self)["hug_" \o n] = last_added[self][n]
             /\ n \in DOMAIN _directives[self]
        ELSE n \notin DOMAIN _directives[self]

\* add_directive replaced a directive of the same name that the API object
\* already held.
LastWriterWinsWitness ==
    /\ last.op = "add_directive"
    /\ DeclaredName(last.directive) \in DOMAIN last.pre
    /\ last.pre[DeclaredName(last.directive)] # last.directive
    /\ directive(last.self, DeclaredName(last.directive), NoDefault) = last.directive

\* C10: when dest.extend(source) has returned, every name of the source's
\* directives is in the destination's, bound to the source's directive (also
\* a name the destination had), and so in dest.directives(); the
\* destination's directives of other names are as before.
ExtendCopiesDirectives ==
    last.op = "extend" =>
        LET dst == _directives[last.self]
            src == last.src_directives
            pre == last.pre_directives
        IN
        /\ DOMAIN dst = DOMAIN pre \cup DOMAIN src
        /\ \A n \in DOMAIN src :
            /\ dst[n] = src[n]
            /\ directives(last.self)["hug_" \o n] = src[n]
        /\ \A n \in DOMAIN pre \ DOMAIN src : dst[n] = pre[n]

\* extend returned for a source, another API object, whose "timer" replaced
\* the destination's, while the destination kept its "user".
ExtendCopiesDirectivesWitness ==
    /\ last.op = "extend"
    /\ last.api # last.self
    /\ "timer" \in DOMAIN last.src_directives
    /\ "timer" \in DOMAIN last.pre_directives
    /\ last.pre_directives["timer"] # last.src_directives["timer"]
    /\ "user" \in DOMAIN last.pre_directives \ DOMAIN last.src_directives
    /\ _directives[last.self]["timer"] = last.src_directives["timer"]

NextStartup ==
    \/ \E ref \in ClientRefs : API(ref) /\ nAPI' <= MaxStartupAPIs
    \/ \E self \in 1..nAPI, handler \in Handlers :
        call_add_startup_handler(self, handler)
    \/ \E self \in 1..nAPI :
        \E failAt \in 0..Len(_startup_handlers[self]) : _ensure_started(self, failAt)

SpecStartup == Init /\ [][NextStartup]_vars

\* The positions of a handler list whose handler is a coroutine function,
\* and the others.
AsyncIndices(hs) == {i \in 1..Len(hs) : is_coroutine(hs[i])}
SyncIndices(hs) == {i \in 1..Len(hs) : ~is_coroutine(hs[i])}

\* The positions a log of invocations names.
Invoked(log) == {log[k].index : k \in 1..Len(log)}

\* The invocations of a log whose handler is not a coroutine function.
IsSyncInvocation(inv) == ~is_coroutine(inv.handler)
SyncLog(log) == SelectSeq(log, IsSyncInvocation)

\* The k-th smallest element of a set of positions.
RECURSIVE Ascending(_)
Ascending(S) ==
    IF S = {} THEN <<>>
    ELSE LET m == CHOOSE x \in S : \A y \in S : x <= y
         IN  <<m>> \o Ascending(S \ {m})

\* C2: when _ensure_started returns without a handler having failed (also for
\* an API object without startup handlers), started is true.
StartedAfterSuccess ==
    last.op = "_ensure_started" /\ ~last.raised => started[last.self]

\* C3: once an _ensure_started call has completed without failure, a later
\* call on the same API object invokes no startup handler.
NoRerunAfterSuccess ==
    last.op = "_ensure_started" /\ last.prev = "ok" => last.log = <<>>

\* C4: if a startup handler fails during _ensure_started, the call raises, no
\* handler that is not a coroutine and is registered after the failing one is
\* invoked in that call, and started is false when the call ends.
FailureAborts ==
    last.op = "_ensure_started" /\ ~last.was_started /\ last.failAt # 0 =>
        /\ last.raised
        /\ \A i \in Invoked(last.log) :
            i \in SyncIndices(last.handlers) => i <= last.failAt
        /\ is_coroutine(last.handlers[last.failAt]) =>
            Invoked(last.log) \cap SyncIndices(last.handlers) = {}
        /\ ~started[last.self]

\* The first of three handlers that are not coroutines ran, the second one
\* failed: the third was not invoked.  And: a coroutine failed while a
\* handler that is not a coroutine was registered before it.
FailureAbortsWitness ==
    /\ last.op = "_ensure_started"
    /\ last.raised
    /\ \/ /\ last.handlers = <<"s1", "s2", "s1">>
          /\ last.failAt = 2
          /\ Invoked(last.log) = {1, 2}
       \/ /\ last.handlers = <<"s1", "a1", "s2">>
          /\ last.failAt = 2
          /\ Invoked(last.log) = {2}

\* What a call that starts from the first handler invokes: every coroutine
\* function, and, unless a coroutine fails, every other handler up to the one
\* that fails.
FromTheBeginning(hs, failAt) ==
    IF failAt = 0 THEN 1..Len(hs)
    ELSE IF is_coroutine(hs[failAt]) THEN AsyncIndices(hs)
    ELSE AsyncIndices(hs) \cup {i \in SyncIndices(hs) : i <= failAt}

\* C5 as stated: the _ensure_started call that follows a failed one invokes
\* every registered handler again.
RetryInvokesAll ==
    last.op = "_ensure_started" /\ last.prev = "failed" =>
        Invoked(last.log) = 1..Len(last.handlers)

\* C5, amended: the _ensure_started call that follows a failed one starts
\* again from the first handler and skips none on account of the failed
\* attempt; if it completes without failure, it has invoked every registered
\* handler once more, those that succeeded in the failed attempt included.
RetryFromScratch ==
    last.op = "_ensure_started" /\ last.prev = "failed" =>
        /\ Invoked(last.log) = FromTheBeginning(last.handlers, last.failAt)
        /\ ~last.raised =>
            /\ Invoked(last.log) = 1..Len(last.handlers)
            /\ Len(last.log) = Len(last.handlers)

\* A call after a failed one completed without failure and invoked all three
\* handlers, a coroutine among them.
RetryFromScratchWitness ==
    /\ last.op = "_ensure_started"
    /\ last.prev = "failed"
    /\ ~last.raised
    /\ last.handlers = <<"s1", "a1", "s2">>
    /\ Len(last.log) = 3

\* C6: within one _ensure_started call the handlers that are not coroutines
\* are invoked one after the other in the order of their registration, each
\* with the API object as its argument, wherever coroutines stand between
\* them in the list; a call that does not fail invokes all of them.
SyncInRegistrationOrder ==
    last.op = "_ensure_started" /\ ~last.was_started =>
        LET sync == SyncLog(last.log)
            order == Ascending(SyncIndices(last.handlers))
        IN
        /\ Len(sync) <= Len(order)
        /\ \A k \in 1..Len(sync) :
            /\ sync[k].index = order[k]
            /\ sync[k].handler = last.handlers[order[k]]
            /\ sync[k].arg = last.self
        /\ ~last.raised => Len(sync) = Len(order)

\* "s1", a coroutine, "s2" were registered in this order, and a call invoked
\* "s1" before "s2"; and a handler registered twice was invoked twice.
SyncInRegistrationOrderWitness ==
    /\ last.op = "_ensure_started"
    /\ ~last.raised
    /\ \/ /\ last.handlers = <<"s2", "a1", "s1">>
          /\ SyncLog(last.log)[1].handler = "s2"
          /\ SyncLog(last.log)[2].handler = "s1"
       \/ /\ last.handlers = <<"s1", "s1", "a1">>
          /\ Len(SyncLog(last.log)) = 2


\* C11: extend copies and keeps no link to its source. A later add_directive
\* or add_startup_handler on an API object changes the directives and the
\* startup handlers of that object alone: those of every other API object,
\* the ones extended from it among them, stay as they were.
OneWayCopy ==
    [][last'.op \in {"add_directive", "add_startup_handler"} =>
        \A dest \in APIs \ {last'.self} :
            /\ _directives'[dest] = _directives[dest]
            /\ _startup_handlers'[dest] = _startup_handlers[dest]]_vars

\* The source of an extend() that returned got a directive afterwards, and
\* the destination, which took handlers from it, does not have it.
OneWayCopyWitness ==
    /\ last.op = "add_directive"
    /\ last.dest # 0
    /\ _startup_handlers[last.dest] # <<>>
    /\ DeclaredName(last.directive) \in DOMAIN _directives[last.self]
    /\ DeclaredName(last.directive) \notin DOMAIN _directives[last.dest]


\* C12: when extend has returned, the startup handlers of the destination are
\* the ones it had before followed by all those of the source, in the
\* source's order, a handler the destination had already included; the
\* source's own sequence is as it was.
ExtendAppendsHandlers ==
    last.op = "extend" =>
        /\ _startup_handlers[last.self] = last.pre_handlers \o last.src_handlers
        /\ _startup_handlers[last.api] = last.src_handlers

\* An extend() returned whose destination had a handler that is also the
\* first of the two different handlers of the source.
ExtendAppendsHandlersWitness ==
    /\ last.op = "extend"
    /\ last.api # last.self
    /\ last.pre_handlers # <<>>
    /\ Len(last.src_handlers) = 2
    /\ last.src_handlers[1] = last.pre_handlers[1]
    /\ last.src_handlers[2] # last.src_handlers[1]


\* The turns the loop of the extend() in progress still has to make: the
\* handlers of the source's list from the loop's position on.
TurnsLeft == Len(startup_handlers(extend_pc.api)) + 1 - extend_pc.i

\* C20: extend terminates, whatever its source resolves to, the destination
\* itself included: every turn of its loop over the startup handlers leaves
\* fewer turns to make than there were, so the call returns after appending
\* a finite number of handlers.
ExtendTerminates ==
    [][extend_pc.op = "extend" /\ extend_pc'.op = "extend" =>
        Len(startup_handlers(extend_pc.api)') + 1 - extend_pc'.i < TurnsLeft]_vars


NextFacets ==
    \/ \E ref \in NamedRefs : API(ref)
    \/ \E self \in 1..nAPI : call_http(self)
    \/ \E self \in 1..nAPI : call_cli(self)
    \/ \E self \in 1..nAPI : call_handlers(self)

SpecFacets == Init /\ [][NextFacets]_vars

\* C13: over the accesses one caller makes one after the other, an API
\* object has its HTTP interface, and its CLI interface, constructed once, by
\* the first access: an access returns the object held before it when there
\* was one, there is one after any access, and no second one is ever built.
FacetConstructedOnce ==
    /\ \A r \in APIs :
        /\ built[r].http = (IF _http[r] = 0 THEN 0 ELSE 1)
        /\ built[r].cli = (IF _cli[r] = 0 THEN 0 ELSE 1)
    /\ last.op = "http" =>
        /\ last.ret = _http[last.self] /\ last.ret # 0
        /\ last.held # 0 => last.ret = last.held
    /\ last.op = "cli" =>
        /\ last.ret = _cli[last.self] /\ last.ret # 0
        /\ last.held # 0 => last.ret = last.held

\* A second access of the HTTP interface of an API object that has its CLI
\* interface too.
FacetConstructedOnceWitness ==
    /\ last.op = "http"
    /\ last.held # 0
    /\ _cli[last.self] # 0


\* The interface objects an API object has, the HTTP one first.
Materialized(self) ==
    (IF _http[self] = 0 THEN <<>> ELSE <<_http[self]>>)
        \o (IF _cli[self] = 0 THEN <<>> ELSE <<_cli[self]>>)

\* C17: whichever of its two interface objects an API object has (none,
\* the HTTP one, the CLI one, both), iterating handlers() ends without an
\* exception having yielded the handlers of exactly those it has, nothing
\* when it has none.
HandlersOfMaterialized ==
    last.op = "handlers" =>
        /\ ~last.ret.raised
        /\ last.ret.yielded = Materialized(last.self)


\* C18: no call on an API object changes hug.defaults.directives, and a
\* directive added to one API object does not show through another: under a
\* name never added to an API object, by add_directive on it or by an
\* extend of it, directive() and directives() of that object answer what
\* the catalog has, whatever the other API objects were given.
CatalogUntouched ==
    /\ defaults_directives = Catalog
    /\ \A r \in 1..nAPI, name \in QueryNames :
        name \notin DOMAIN last_added[r] =>
            IF name \in DOMAIN Catalog
            THEN /\ directive(r, name, NoDefault) = Catalog[name]
                 /\ directives(r)["hug_" \o name] = Catalog[name]
            ELSE /\ directive(r, name, NoDefault) = NoDefault
                 /\ ("hug_" \o name) \notin DOMAIN directives(r)

\* A directive was added to an API object under a name the catalog has, and
\* another API object, which has no directive of its own, answers the
\* catalog's.
CatalogUntouchedWitness ==
    /\ last.op = "add_directive"
    /\ DeclaredName(last.directive) \in DOMAIN defaults_directives
    /\ directive(last.self, DeclaredName(last.directive), NoDefault) = last.directive
    /\ \E r \in 1..nAPI :
        /\ r # last.self
        /\ _directives[r] = EmptyDict
        /\ directive(r, DeclaredName(last.directive), NoDefault)
                = defaults_directives[DeclaredName(last.directive)]


ServeRefs == NamedRefs \cup {RefModule(m) : m \in LiveModules}

NextServe ==
    \/ \E ref \in ServeRefs : API(ref)
    \/ \E module \in LiveModules, args \in Args : call_hug_wsgi(module, args)
    \/ \E module \in LiveModules, args \in Args :
        call_api_auto_instantiate(module, args)

SpecServe == Init /\ [][NextServe]_vars

\* C16: over the calls one caller makes through the entry point of a module,
\* by the module's attribute or by the api_auto_instantiate taken from it
\* earlier, http.server() is called once, by the first call; every call
\* returns what that one server object returns for the call's own
\* arguments; and the attribute keeps the server object however often the
\* module is resolved again.
ServerBuiltOnce ==
    /\ \A m \in Modules :
        /\ server_calls[m] = (IF hug_serving[m] THEN 1 ELSE 0)
        /\ hug_serving[m] => hug_wsgi[m] = "server" /\ server_id[m] = 1
    /\ last.op = "hug_wsgi" =>
        /\ hug_serving[last.module]
        /\ last.ret = server_call(1, last.args)

\* A call through the api_auto_instantiate taken earlier, made after the
\* server was built.
ServerBuiltOnceWitness ==
    /\ last.op = "hug_wsgi"
    /\ last.through = "retained"
    /\ last.was_serving
    /\ last.args = "y"


\* C19: in one run of _ensure_started that calls a handler which is not a
\* coroutine function, every coroutine of the run was called and has
\* completed before the first such call, also when that handler was
\* registered before the coroutine functions; the coroutines complete in
\* any order.
AsyncCompleteBeforeSync ==
    last.op = "_ensure_started" /\ SyncLog(last.log) # <<>> =>
        /\ Range(last.completed) = AsyncIndices(last.handlers)
        /\ \A j, k \in 1..Len(last.log) :
            ~is_coroutine(last.log[j].handler) /\ is_coroutine(last.log[k].handler)
                => k < j

\* A run over a handler that is not a coroutine function, registered first,
\* and two coroutine functions, whose coroutines completed in the reverse
\* of their registration order.
AsyncCompleteBeforeSyncWitness ==
    /\ last.op = "_ensure_started"
    /\ Len(last.handlers) = 3
    /\ ~is_coroutine(last.handlers[1])
    /\ last.completed = <<3, 2>>
    /\ SyncLog(last.log) # <<>>


\* The handlers registered where threads are looked at.
ThreadHandlers == {"s1"}

NextThreads ==
    \/ \E ref \in NamedRefs : API(ref)
    \/ \E self \in 1..nAPI, handler \in ThreadHandlers :
        call_add_startup_handler(self, handler)
    \/ \E t \in Threads, self \in 1..nAPI, kind \in Kinds :
        property_hasattr(t, self, kind)
    \/ \E t \in Threads : property_construct(t)
    \/ \E t \in Threads : property_return(t)
    \/ \E t \in Threads, self \in 1..nAPI : ensure_started_test(t, self)
    \/ \E t \in Threads : ensure_started_run(t)

SpecThreads == Init /\ [][NextThreads]_vars

\* C14: when threads read http (or cli) of one API object for the first
\* time with their statements interleaved, one interface object is
\* constructed for it, every thread gets that object, and it is the one the
\* API object holds, so that nothing registered through it is lost.
FacetSafeUnderThreads ==
    /\ \A r \in APIs : built[r].http <= 1 /\ built[r].cli <= 1
    /\ \A t \in Threads :
        tpc[t].op = "done" /\ tpc[t].call \in Kinds =>
            tpc[t].ret = slot(tpc[t].self, tpc[t].call)

\* C15: when threads call _ensure_started on one API object that is not
\* started, with their statements interleaved, one of them alone runs the
\* startup handlers, so that each registered handler is invoked once in
\* total.
StartedOnceUnderThreads ==
    \A r \in APIs : _startup_handlers[r] # <<>> => es_runs[r] <= 1

=============================================================================
